---- MODULE Spec2Model ----
(***************************************************************************)
(* A model of SSDi-Calculator.py: main, the aggregation of size records    *)
(* into per-species cohorts (input_to_dict), quick_counts, the per-species *)
(* analysis (run_ssdi_calculations), the dimorphism index (ssdi_single),   *)
(* the pairwise estimator (ssdi_pairwise), the permutation test            *)
(* (run_permutations) and write_output.                                    *)
(*                                                                         *)
(* Numbers.  Python floats are modelled by fixed-point integers:           *)
(*   - body sizes and their means in tenths   (50 is the float 5.0),       *)
(*   - SSDi values, percentiles and p-values in thousandths.               *)
(* The program rounds doubles, not exact quotients.  Away from a tie the    *)
(* two agree.  On a tie of the exact quotient (it lies halfway between two  *)
(* neighbours) the double lies on either side of the tie unless the         *)
(* operands and the tie are binary fractions; there the computation is      *)
(* exact and the tie goes to the even neighbour.  Rounded gives the set of  *)
(* values the program can return: one value, or both neighbours of a tie    *)
(* that floating-point error decides.  The final rounding of the            *)
(* permutation p-value is decided exactly (Round3OfDecimal5).               *)
(***************************************************************************)
EXTENDS Integers, Sequences, FiniteSets, TLC

VARIABLES
    pc,                 \* position of the program: "start", "open", "read", "counts",
                        \* "calc", "perm", "write", "finish", "done", or where an
                        \* exception ended it: "rejected", "no_file", "no_header",
                        \* "crashed"
    lines,              \* the data lines of the input file consumed so far (after the header)
    species_dict,       \* input_to_dict: species -> [M |-> sizes, F |-> sizes]
    log,                \* the events handed to the logging module, in order
    todo,               \* run_ssdi_calculations: species still to visit, sorted
    cur,                \* run_ssdi_calculations: the locals of the current iteration
    pw,                 \* the latest call of ssdi_pairwise: arguments, vals and results
    i,                  \* run_permutations: number of draws done
    permuted_ssdi_vals, \* run_permutations: the null distribution (value -> multiplicity)
    newf,               \* run_permutations: the relabelled females of the latest draw
    newm,               \* run_permutations: the relabelled males of the latest draw
    calc_dict,          \* run_ssdi_calculations: species -> result record
    outfile             \* write_output: the rows of SSDi-Results.txt and SSDi-Results.csv

vars == <<pc, lines, species_dict, log, todo, cur, pw, i, permuted_ssdi_vals,
          newf, newm, calc_dict, outfile>>

---------------------------------------------------------------------------
(* Bounds of the model and constants of the program. *)

\* Longest input file explored, in data lines.
MaxLines == 4
\* Iterations at the end of the bootstrap loop explored from the states of
\* the loop that InitTail enumerates.
MaxDraws == 2
\* for i in range(0, 10000)
NumDraws == 10000

---------------------------------------------------------------------------
(* Values.  A Python value that may be a float, the string "NA", the       *)
(* string "<0.001", nan or None is a record with a tag; val is the number   *)
(* (in the unit of the field) when tag = "num" and 0 otherwise.             *)

Num(x) == [tag |-> "num", val |-> x]
NA     == [tag |-> "NA", val |-> 0]
LT001  == [tag |-> "<0.001", val |-> 0]
NaN    == [tag |-> "nan", val |-> 0]
None   == [tag |-> "None", val |-> 0]
\* The formatted p-value of a t-test on vals of positive variance: "<0.001"
\* or a float rounded to 3 decimals, as scipy's t distribution decides; which
\* of the two, and the digits, are not modelled.
TTestFormatted == [tag |-> "ttest", val |-> 0]
\* A double that no round() has touched: diff = abs(ssdi - avg_ssdi).  val is
\* the difference of the two rounded operands, which the double equals up to
\* the error of one floating-point subtraction (0.0030000000000000027 for 3).
Double(x) == [tag |-> "double", val |-> x]

\* Python truthiness of ssdi in "if ssdi:": None, 0.0 and -0.0 are falsy.
Truthy(v) == v.tag = "num" /\ v.val # 0

Abs(x) == IF x < 0 THEN -x ELSE x

\* round(x, n) and numpy's around for x = n/d (d > 0) computed in doubles:
\* the integers the result can be.  odd is the odd part of the unit of the
\* result (5 for tenths, 125 for thousandths): a tie (2q+1)/2 units is a
\* binary fraction exactly when odd divides 2q+1.  exact: the operands are
\* binary fractions, so that a tie that is one too is computed exactly and
\* goes to the even neighbour.
Rounded(n, d, odd, exact) ==
    LET q == n \div d
        r == n % d
    IN  IF 2 * r < d THEN {q}
        ELSE IF 2 * r > d THEN {q + 1}
        ELSE IF exact /\ (2 * q + 1) % odd = 0
             THEN {IF q % 2 = 0 THEN q ELSE q + 1}
             ELSE {q, q + 1}

RECURSIVE SumSeq(_)
SumSeq(s) == IF s = <<>> THEN 0 ELSE Head(s) + SumSeq(Tail(s))

\* The floats of s (in units of 1/(2 * odd)) are binary fractions.
Dyadic(s, odd) == \A a \in 1..Len(s) : s[a] % odd = 0

\* round(np.mean(sizes), 1), in tenths.
MeanRound1(sizes) == Rounded(SumSeq(sizes), Len(sizes), 5, Dyadic(sizes, 5))

\* One logging call: level, message, and the input line or species it is about.
Ev(lvl, msg, line, sp) == [lvl |-> lvl, msg |-> msg, line |-> line, sp |-> sp]

---------------------------------------------------------------------------
(* The input file.  A line is the list cols after strip() and split():     *)
(* n is len(cols) (0 for a blank line), species is cols[0], sex is cols[1], *)
(* size is cols[2] as a token: a decimal literal of val tenths, or text     *)
(* float() rejects.                                                        *)

Species == {"A", "B"}
\* sorted() on the species names.
SpeciesOrder == <<"A", "B">>
SexTokens == {"M", "f", "x"}
NumTok(t) == [num |-> TRUE, val |-> t]
BadTok == [num |-> FALSE, val |-> 0]
SizeTokens == {NumTok(50), NumTok(100), BadTok}

BlankLine == [n |-> 0, species |-> "", sex |-> "", size |-> BadTok]
ShortLine == [n |-> 2, species |-> "A", sex |-> "M", size |-> BadTok]
Lines == {BlankLine, ShortLine}
         \cup [n : {3}, species : Species, sex : SexTokens, size : SizeTokens]

\* str.upper() on the sex tokens of the model.
Upper(tok) ==
    CASE tok = "m" -> "M"
      [] tok = "f" -> "F"
      [] tok = "x" -> "X"
      [] OTHER -> tok

\* A record the aggregator accepts: 3 fields, sex M or F, a parseable size.
WellFormed(line) ==
    /\ line.n >= 3
    /\ Upper(line.sex) \in {"M", "F"}
    /\ line.size.num

EmptyDict == [s \in {} |-> 0]

\* One iteration of the loop "for line in fh" of input_to_dict on the
\* dictionary d; at is the number of the line.  raised: float(cols[2]) raised
\* ValueError, which nothing catches.
ReadStep(d, line, at) ==
    IF line.n = 0 THEN
        [raised |-> FALSE, dict |-> d, events |-> <<>>]
    ELSE IF line.n < 3 THEN
        [raised |-> FALSE, dict |-> d,
         events |-> <<Ev("DEBUG", "Bad line", at, "")>>]
    ELSE IF ~line.size.num THEN
        [raised |-> TRUE, dict |-> d, events |-> <<>>]
    ELSE
        LET species == line.species
            sex == Upper(line.sex)
            size == line.size.val
            d1 == IF species \notin DOMAIN d
                  THEN d @@ (species :> [M |-> <<>>, F |-> <<>>])
                  ELSE d
        IN  IF sex = "M" THEN
                [raised |-> FALSE,
                 dict |-> [d1 EXCEPT ![species].M = Append(@, size)],
                 events |-> <<>>]
            ELSE IF sex = "F" THEN
                [raised |-> FALSE,
                 dict |-> [d1 EXCEPT ![species].F = Append(@, size)],
                 events |-> <<>>]
            ELSE
                [raised |-> FALSE, dict |-> d1,
                 events |-> <<Ev("DEBUG", "Skipping entry", at, species)>>]

\* logging.info("Reading input data file: ...")
ReadingEvent == Ev("INFO", "Reading input data file", 0, "")
\* logging.info("Found data for {} species.")
FoundEvent == Ev("INFO", "Found data for species", 0, "")

\* for k, v in sorted(species_dict.items()): the keys in sorted order.
SortedKeys(d) == SelectSeq(SpeciesOrder, LAMBDA s : s \in DOMAIN d)


\* logging.debug("BEGINNING ANALYSIS"); logging.debug("Arguments: ...")
MainEvents ==
    << Ev("DEBUG", "BEGINNING ANALYSIS", 0, ""), Ev("DEBUG", "Arguments", 0, "") >>

\* The three logging.debug calls that close quick_counts.
QuickCountsEvents ==
    << Ev("DEBUG", "Species with > 1 M and > 1 F", 0, ""),
       Ev("DEBUG", "Species with > 2 M and > 2 F", 0, ""),
       Ev("DEBUG", "Species with > 3 M and > 3 F", 0, "") >>

---------------------------------------------------------------------------
(* ssdi_single: the Lovich & Gibbons index of two sizes in tenths, in      *)
(* thousandths: the set of values the call can return (see Rounded).       *)

\* The index without the sign convention: larger / smaller - 1 for both sexes.
ssdi_single_unsigned(f, m) ==
    IF m > f THEN Rounded(1000 * (m - f), f, 125, Dyadic(<<f, m>>, 5))
    ELSE IF f > m THEN Rounded(1000 * (f - m), m, 125, Dyadic(<<f, m>>, 5))
    ELSE {0}

ssdi_single(f, m) ==
    IF m > f THEN { -x : x \in Rounded(1000 * (m - f), f, 125, Dyadic(<<f, m>>, 5)) }
    ELSE IF f > m THEN Rounded(1000 * (f - m), m, 125, Dyadic(<<f, m>>, 5))
    ELSE {0}

---------------------------------------------------------------------------
(* ssdi_pairwise.                                                          *)

\* The inner loop over the distinct male sizes: for m in set(males).
RECURSIVE PairwiseInnerDistinct(_, _)
PairwiseInnerDistinct(f, males) ==
    IF males = <<>> THEN {<<>>}
    ELSE LET rest == PairwiseInnerDistinct(f, Tail(males))
         IN  IF \E a \in 2..Len(males) : males[a] = Head(males)
             THEN rest
             ELSE { <<x>> \o t : x \in ssdi_single(f, Head(males)), t \in rest }

\* for m in males: vals.append(ssdi_single(f, m)): the lists it can append.
RECURSIVE PairwiseInner(_, _)
PairwiseInner(f, males) ==
    IF males = <<>> THEN {<<>>}
    ELSE { <<x>> \o t : x \in ssdi_single(f, Head(males)),
                        t \in PairwiseInner(f, Tail(males)) }

\* for f in females: for m in males: ...: the lists vals can be.
RECURSIVE PairwiseVals(_, _)
PairwiseVals(females, males) ==
    IF females = <<>> THEN {<<>>}
    ELSE { s \o t : s \in PairwiseInner(Head(females), males),
                    t \in PairwiseVals(Tail(females), males) }

\* avg_ssdi = round(np.mean(vals), 3)
PairwiseAvg(vals) == Rounded(SumSeq(vals), Len(vals), 125, Dyadic(vals, 125))

ZeroVariance(vals) == \A a \in 1..Len(vals) : vals[a] = vals[1]

\* stats.ttest_1samp(vals, 0) followed by the formatting of its p-value.
\* scipy divides the mean by the standard error: with all vals equal that is
\* 0/0 = nan when they are 0 (nan <= 0.001 is False and round(nan, 3) is nan)
\* and a division by (nearly) zero otherwise, of p-value (nearly) 0.
TTestP(vals) ==
    IF ZeroVariance(vals)
    THEN (IF vals[1] = 0 THEN NaN ELSE LT001)
    ELSE TTestFormatted

\* The calls ssdi_pairwise(females, males, ttest) can make: the arguments,
\* the local vals and the pair (avg_ssdi, p) returned.
ssdi_pairwise(females, males, ttest) ==
    UNION { { [females |-> females, males |-> males, ttest |-> ttest,
               vals |-> vals, avg |-> avg,
               p |-> IF ttest THEN TTestP(vals) ELSE NA] :
              avg \in PairwiseAvg(vals) } :
            vals \in PairwiseVals(females, males) }

NoCall == [females |-> <<>>, males |-> <<>>, ttest |-> FALSE,
           vals |-> <<>>, avg |-> 0, p |-> NA]

---------------------------------------------------------------------------
(* run_permutations.  permuted_ssdi_vals is kept as a multiset (value ->   *)
(* number of occurrences): the list is sorted before it is read, and what   *)
(* is read of it (percentiles, a count, its length) depends on the multiset *)
(* alone.                                                                   *)

EmptyVals == [x \in {} |-> 0]

\* permuted_ssdi_vals.append(x)
AppendVal(b, x) ==
    IF x \in DOMAIN b THEN [b EXCEPT ![x] = @ + 1] ELSE b @@ (x :> 1)

RECURSIVE Occurrences(_, _)
\* The number of entries of the list whose value lies in S.
Occurrences(b, S) ==
    IF S = {} THEN 0
    ELSE LET x == CHOOSE y \in S : TRUE
         IN  b[x] + Occurrences(b, S \ {x})

\* len(permuted_ssdi_vals)
NumVals(b) == Occurrences(b, DOMAIN b)

\* permuted_ssdi_vals.sort(); permuted_ssdi_vals[k], k counted from 0
Sorted(b, k) ==
    CHOOSE x \in DOMAIN b :
        LET below == Occurrences(b, {y \in DOMAIN b : y < x})
        IN  below <= k /\ k < below + b[x]

\* round(np.percentile(permuted_ssdi_vals, q), 3) for q = cpm / 1000 (cpm
\* is q in thousandths of a percent): numpy interpolates linearly between the
\* two order statistics around the position (len - 1) * q / 100, in doubles.
Percentile(b, cpm) ==
    LET n == NumVals(b)
        pos == (n - 1) * cpm
        lo == pos \div 100000
        frac == pos % 100000
        hi == IF lo + 1 < n THEN lo + 1 ELSE lo
    IN  Rounded(Sorted(b, lo) * (100000 - frac) + Sorted(b, hi) * frac, 100000,
                125, FALSE)

\* np.percentile(permuted_ssdi_vals, 2.5)
PermLow(b) == Percentile(b, 2500)

\* The percentile asked as a fraction: np.percentile(permuted_ssdi_vals, 0.975).
PermHighFraction(b) == Percentile(b, 975)

\* np.percentile(permuted_ssdi_vals, 97.5)
PermHigh(b) == Percentile(b, 97500)

\* abs(x) > abs(emp_ssdi)
Extreme(emp_ssdi, x) == Abs(x) > Abs(emp_ssdi)

RECURSIVE Doubled(_, _)
\* r * 2^k modulo 10^5.
Doubled(r, k) == IF k = 0 THEN r ELSE Doubled((2 * r) % 100000, k - 1)

RECURSIVE BinaryShift(_, _)
\* The least t >= s with p5 * 2^t >= 10^5, for 0 < p5 * 2^s.
BinaryShift(p5, s) == IF p5 >= 100000 THEN s ELSE BinaryShift(2 * p5, s + 1)

\* round(ptwotail, 3) for the double ptwotail nearest to p5 / 10^5 (what
\* round(..., 5) returned), in thousandths.  The double has 53 significant
\* bits: it is p5 / 10^5 scaled by 2^(t+52) and rounded to the nearest
\* integer, so the remainder of p5 * 2^(t+52) modulo 10^5 tells on which side
\* of p5 / 10^5 it lies; a tie of the decimal goes to that side, and to the
\* even neighbour when the double is exact.
Round3OfDecimal5(p5) ==
    LET q == p5 \div 100
        r == p5 % 100
        rem == Doubled(p5 % 100000, BinaryShift(p5, 0) + 52)
    IN  IF r < 50 THEN q
        ELSE IF r > 50 THEN q + 1
        ELSE IF rem = 0 THEN (IF q % 2 = 0 THEN q ELSE q + 1)
        ELSE IF rem > 50000 THEN q + 1
        ELSE q

\* ptwotail and its readable format: (count + 1) / (len + 1) rounded to 5
\* decimals, "<0.001" if that is <= 0.001, else rounded to 3 decimals.
PermP(b, emp_ssdi) ==
    LET count == Occurrences(b, {x \in DOMAIN b : Extreme(emp_ssdi, x)})
    IN  { IF ptwotail <= 100 THEN LT001 ELSE Num(Round3OfDecimal5(ptwotail)) :
          ptwotail \in Rounded((count + 1) * 100000, NumVals(b) + 1, 3125, TRUE) }

\* Sampling with replacement: random.choices(allsizes, k=len(allsizes)).
SampleWithReplacement(allsizes) ==
    { [j \in 1..Len(allsizes) |-> allsizes[p[j]]] :
      p \in [1..Len(allsizes) -> 1..Len(allsizes)] }

\* random.sample(allsizes, len(allsizes)): the elements at all positions,
\* each position used once, in a random order.
Sample(allsizes) ==
    { [j \in 1..Len(allsizes) |-> allsizes[p[j]]] :
      p \in Permutations(1..Len(allsizes)) }

\* The logging.info calls that close run_permutations.
PermEvents(emp_ssdi, low, high) ==
    << Ev("INFO", "Permutation Test: percentile values", 0, ""),
       Ev("INFO", "Permutation Test: Empirical value", 0, ""),
       IF emp_ssdi <= low
       THEN Ev("INFO", "Empirical value lies outside the 2.5 percentile", 0, "")
       ELSE IF emp_ssdi > low /\ emp_ssdi < high
       THEN Ev("INFO", "Empirical value within the 2.5 and 97.5 percentiles", 0, "")
       ELSE Ev("INFO", "Empirical value lies outside the 97.5 percentile", 0, ""),
       Ev("INFO", "Permutation Test: Permutation test P-value", 0, "") >>

---------------------------------------------------------------------------
(* run_ssdi_calculations: the locals of one iteration and the result.      *)

\* A local no statement has assigned yet.
Unbound == [tag |-> "unbound", val |-> 0]

\* meanf and meanm are the values of round(np.mean(v["F"]), 1) and
\* round(np.mean(v["M"]), 1), which an iteration evaluates twice ("NA" for a
\* sex of one size).
NoLocals ==
    [k |-> "", ssdi |-> Unbound, avg_ssdi |-> Unbound, p_pair |-> Unbound,
     low |-> Unbound, high |-> Unbound, p_perm |-> Unbound, diff |-> Unbound,
     avgf |-> Unbound, avgm |-> Unbound, meanf |-> Unbound, meanm |-> Unbound]

\* avg_ssdi, p_pair, low, high, p_perm, diff, avgf, avgm = "NA", ..., "NA"
SkippedTests(c) ==
    [c EXCEPT !.avg_ssdi = NA, !.p_pair = NA, !.low = NA, !.high = NA,
              !.p_perm = NA, !.diff = NA, !.avgf = NA, !.avgm = NA]

\* The three logging.info calls that open an iteration.
SpeciesEvents(k) ==
    << Ev("INFO", "Species", 0, k), Ev("INFO", "Males", 0, k),
       Ev("INFO", "Females", 0, k) >>

\* if ssdi: calc_dict[k] = {...}
StoreResult(cd, k, v, c) ==
    IF Truthy(c.ssdi)
    THEN [s \in (DOMAIN cd) \cup {k} |->
            IF s = k
            THEN [males |-> Len(v.M), females |-> Len(v.F), ssdi |-> c.ssdi,
                  avg_ssdi |-> c.avg_ssdi, p_pair |-> c.p_pair, low |-> c.low,
                  high |-> c.high, p_perm |-> c.p_perm, diff |-> c.diff,
                  avgf |-> c.avgf, avgm |-> c.avgm]
            ELSE cd[s]]
    ELSE cd

---------------------------------------------------------------------------
(* write_output.                                                           *)

\* The header line of both output files.
OutHeader ==
    [species |-> "Species", males |-> "Number_Males", females |-> "Number_Females",
     avgm |-> "Avg_Male", avgf |-> "Avg_Female", ssdi |-> "Standard_SSDi",
     avg_ssdi |-> "Avg_Pairwise_SSDi", diff |-> "AbsDifference",
     p_perm |-> "Dimorphism_PValue", low |-> "2.5_percentile",
     high |-> "97.5_percentile"]

\* The line of species k: the fields of its result in the order of the columns.
OutRow(k, res) ==
    [species |-> k, males |-> res.males, females |-> res.females,
     avgm |-> res.avgm, avgf |-> res.avgf, ssdi |-> res.ssdi,
     avg_ssdi |-> res.avg_ssdi, diff |-> res.diff, p_perm |-> res.p_perm,
     low |-> res.low, high |-> res.high]

\* for k, v in sorted(calc_dict.items()): fh1.write(...); fh2.write(...)
OutRows(cd) ==
    [j \in 1..Len(SortedKeys(cd)) |-> OutRow(SortedKeys(cd)[j], cd[SortedKeys(cd)[j]])]

---------------------------------------------------------------------------
(* The program: main.                                                      *)

\* main after get_args: nothing read, nothing logged, no output file.
Init ==
    /\ pc = "start"
    /\ lines = <<>>
    /\ species_dict = EmptyDict
    /\ log = <<>>
    /\ todo = <<>>
    /\ cur = NoLocals
    /\ pw = NoCall
    /\ i = 0
    /\ permuted_ssdi_vals = EmptyVals
    /\ newf = <<>>
    /\ newm = <<>>
    /\ calc_dict = EmptyDict
    /\ outfile = <<>>

\* check_inputs: the input is not a file or the output directory is not a
\* directory; IOError ends the program.
CheckInputsRaises ==
    /\ pc = "start"
    /\ pc' = "rejected"
    /\ UNCHANGED <<lines, species_dict, log, todo, cur, pw, i, permuted_ssdi_vals,
                   newf, newm, calc_dict, outfile>>

\* check_inputs passes; os.chdir, setup_logging, the two logging.debug calls
\* of main, and input_to_dict up to open(input).
MainStart ==
    /\ pc = "start"
    /\ log' = log \o MainEvents \o <<ReadingEvent>>
    /\ pc' = "open"
    /\ UNCHANGED <<lines, species_dict, todo, cur, pw, i, permuted_ssdi_vals,
                   newf, newm, calc_dict, outfile>>

\* open(input, 'r') raises FileNotFoundError: the path is relative and
\* os.chdir has moved to another directory.  Nothing catches it.
OpenRaises ==
    /\ pc = "open"
    /\ pc' = "no_file"
    /\ UNCHANGED <<lines, species_dict, log, todo, cur, pw, i, permuted_ssdi_vals,
                   newf, newm, calc_dict, outfile>>

\* next(fh) raises StopIteration: the file has no line at all.  Nothing
\* catches it.
SkipHeaderRaises ==
    /\ pc = "open"
    /\ pc' = "no_header"
    /\ UNCHANGED <<lines, species_dict, log, todo, cur, pw, i, permuted_ssdi_vals,
                   newf, newm, calc_dict, outfile>>

\* open(input, 'r') and next(fh): the header line is skipped.
SkipHeader ==
    /\ pc = "open"
    /\ pc' = "read"
    /\ UNCHANGED <<lines, species_dict, log, todo, cur, pw, i, permuted_ssdi_vals,
                   newf, newm, calc_dict, outfile>>

\* input_to_dict: one iteration of "for line in fh".
ReadLine ==
    /\ pc = "read"
    /\ Len(lines) < MaxLines
    /\ \E line \in Lines :
         LET r == ReadStep(species_dict, line, Len(lines) + 1)
         IN  /\ lines' = Append(lines, line)
             /\ species_dict' = r.dict
             /\ log' = log \o r.events
             /\ pc' = IF r.raised THEN "crashed" ELSE "read"
    /\ UNCHANGED <<todo, cur, pw, i, permuted_ssdi_vals, newf, newm, calc_dict,
                   outfile>>

\* input_to_dict: the file is exhausted; the function logs and returns.
EndOfFile ==
    /\ pc = "read"
    /\ log' = Append(log, FoundEvent)
    /\ pc' = "counts"
    /\ UNCHANGED <<lines, species_dict, todo, cur, pw, i, permuted_ssdi_vals,
                   newf, newm, calc_dict, outfile>>

\* quick_counts, then run_ssdi_calculations up to its loop.
QuickCounts ==
    /\ pc = "counts"
    /\ log' = log \o QuickCountsEvents
    /\ todo' = SortedKeys(species_dict)
    /\ pc' = "calc"
    /\ UNCHANGED <<lines, species_dict, cur, pw, i, permuted_ssdi_vals,
                   newf, newm, calc_dict, outfile>>

\* if len(v["F"]) == 1 and len(v["M"]) == 1
CalcBothSingle ==
    /\ pc = "calc"
    /\ todo # <<>>
    /\ LET k == Head(todo)
           v == species_dict[k]
       IN  /\ Len(v.F) = 1 /\ Len(v.M) = 1
           /\ \E ssdi \in ssdi_single(v.F[1], v.M[1]) :
                LET c == SkippedTests([cur EXCEPT !.k = k, !.ssdi = Num(ssdi)])
                IN  /\ cur' = c
                    /\ log' = log \o SpeciesEvents(k)
                                  \o <<Ev("INFO", "Standard SSDi", 0, k)>>
                    /\ calc_dict' = StoreResult(calc_dict, k, v, c)
    /\ todo' = Tail(todo)
    /\ UNCHANGED <<pc, lines, species_dict, pw, i, permuted_ssdi_vals, newf, newm,
                   outfile>>

\* The sizes f and m a branch hands to ssdi_single, and the means meanf and
\* meanm it takes ("NA" for a sex of one size).
TestArgs(f, m, meanf, meanm) == [f |-> f, m |-> m, meanf |-> meanf, meanm |-> meanm]

\* ssdi_single(round(np.mean(v["F"]), 1), v["M"][0]); avgf, avgm = mean, "NA"
FemalesMultipleArgs(v) ==
    { TestArgs(f, v.M[1], Num(f), NA) : f \in MeanRound1(v.F) }

\* ssdi_single(v["F"][0], round(np.mean(v["M"]), 1)); avgf, avgm = "NA", mean
MalesMultipleArgs(v) ==
    { TestArgs(v.F[1], m, NA, Num(m)) : m \in MeanRound1(v.M) }

\* ssdi_single(round(np.mean(v["F"]), 1), round(np.mean(v["M"]), 1))
BothMultipleArgs(v) ==
    { TestArgs(f, m, Num(f), Num(m)) : f \in MeanRound1(v.F), m \in MeanRound1(v.M) }

\* The three branches that run the tests, up to the call of run_permutations:
\* the locals and the call of ssdi_pairwise with the t-test they can make.
TestsEntered(c, k, v, a) ==
    { [cur |-> [c EXCEPT !.k = k, !.ssdi = Num(ssdi),
                         !.avg_ssdi = Num(r.avg), !.p_pair = r.p,
                         !.meanf = a.meanf, !.meanm = a.meanm],
       pw |-> r] :
      ssdi \in ssdi_single(a.f, a.m), r \in ssdi_pairwise(v.F, v.M, TRUE) }

\* The logging calls of such a branch before run_permutations.
TestsEvents(k) ==
    SpeciesEvents(k) \o << Ev("INFO", "Standard SSDi", 0, k),
                           Ev("INFO", "Average pairwise SSDi", 0, k),
                           Ev("DEBUG", "One-sample t-test P-value", 0, k) >>

\* A branch that runs the tests, up to the first iteration of the loop of
\* run_permutations, on the empty list of permuted values.
StartTests(k, args) ==
    \E a \in args : \E e \in TestsEntered(cur, k, species_dict[k], a) :
      /\ pw' = e.pw
      /\ cur' = e.cur
      /\ log' = log \o TestsEvents(k)
      /\ pc' = "perm"
      /\ i' = 0
      /\ permuted_ssdi_vals' = EmptyVals
      /\ todo' = Tail(todo)
      /\ UNCHANGED <<lines, species_dict, newf, newm, calc_dict, outfile>>

\* elif len(v["F"]) > 1 and len(v["M"]) == 1
CalcFemalesMultiple ==
    /\ pc = "calc"
    /\ todo # <<>>
    /\ LET v == species_dict[Head(todo)]
       IN  /\ Len(v.F) > 1 /\ Len(v.M) = 1
           /\ StartTests(Head(todo), FemalesMultipleArgs(v))

\* elif len(v["F"]) == 1 and len(v["M"]) > 1
CalcMalesMultiple ==
    /\ pc = "calc"
    /\ todo # <<>>
    /\ LET v == species_dict[Head(todo)]
       IN  /\ Len(v.F) = 1 /\ Len(v.M) > 1
           /\ StartTests(Head(todo), MalesMultipleArgs(v))

\* elif len(v["F"]) > 1 and len(v["M"]) > 1
CalcBothMultiple ==
    /\ pc = "calc"
    /\ todo # <<>>
    /\ LET v == species_dict[Head(todo)]
       IN  /\ Len(v.F) > 1 /\ Len(v.M) > 1
           /\ StartTests(Head(todo), BothMultipleArgs(v))

\* else: a species missing data for one of the sexes
CalcIncomplete ==
    /\ pc = "calc"
    /\ todo # <<>>
    /\ LET k == Head(todo)
           v == species_dict[k]
       IN  /\ Len(v.F) = 0 \/ Len(v.M) = 0
           /\ LET c == [cur EXCEPT !.k = k, !.ssdi = None]
              IN  /\ cur' = c
                  /\ log' = log \o SpeciesEvents(k)
                                \o <<Ev("ERROR", "Species does not have at least 1 M and 1 F", 0, k)>>
                  /\ calc_dict' = StoreResult(calc_dict, k, v, c)
    /\ todo' = Tail(todo)
    /\ UNCHANGED <<pc, lines, species_dict, pw, i, permuted_ssdi_vals, newf, newm,
                   outfile>>

\* The iterations of the loop of run_permutations can make on the cohorts
\* females and males: the relabelled lists and the call of ssdi_pairwise.
Draws(females, males) ==
    UNION { LET nf == SubSeq(randomized, 1, Len(females))
                nm == SubSeq(randomized, Len(females) + 1, Len(randomized))
            IN  { [newf |-> nf, newm |-> nm, pw |-> r] :
                  r \in ssdi_pairwise(nf, nm, FALSE) } :
            randomized \in Sample(females \o males) }

\* run_permutations: one iteration of "for i in range(0, 10000)".
Draw ==
    /\ pc = "perm"
    /\ i < NumDraws
    /\ \E d \in Draws(species_dict[cur.k].F, species_dict[cur.k].M) :
         /\ newf' = d.newf
         /\ newm' = d.newm
         /\ pw' = d.pw
         /\ permuted_ssdi_vals' = AppendVal(permuted_ssdi_vals, d.pw.avg)
    /\ i' = i + 1
    /\ UNCHANGED <<pc, lines, species_dict, log, todo, cur, calc_dict, outfile>>

\* run_permutations after the loop (percentiles, p-value, log), then the
\* rest of the iteration of run_ssdi_calculations that called it.
FinishPerm ==
    /\ pc = "perm"
    /\ i = NumDraws
    /\ LET v == species_dict[cur.k]
           emp_ssdi == cur.avg_ssdi.val
       IN  \E low \in PermLow(permuted_ssdi_vals),
              high \in PermHigh(permuted_ssdi_vals),
              p \in PermP(permuted_ssdi_vals, emp_ssdi) :
             LET c == [cur EXCEPT
                         !.low = Num(low), !.high = Num(high), !.p_perm = p,
                         !.diff = Double(Abs(cur.ssdi.val - emp_ssdi)),
                         !.avgf = cur.meanf, !.avgm = cur.meanm]
             IN  /\ cur' = c
                 /\ log' = log \o PermEvents(emp_ssdi, low, high)
                 /\ calc_dict' = StoreResult(calc_dict, cur.k, v, c)
    /\ pc' = "calc"
    /\ UNCHANGED <<lines, species_dict, todo, pw, i, permuted_ssdi_vals, newf, newm,
                   outfile>>

\* return calc_dict
CalcReturn ==
    /\ pc = "calc"
    /\ todo = <<>>
    /\ pc' = "write"
    /\ UNCHANGED <<lines, species_dict, log, todo, cur, pw, i, permuted_ssdi_vals,
                   newf, newm, calc_dict, outfile>>

\* write_output: the log event, then the header and one line per result in
\* both files.
WriteOutput ==
    /\ pc = "write"
    /\ log' = Append(log, Ev("INFO", "Writing output files", 0, ""))
    /\ outfile' = <<OutHeader>> \o OutRows(calc_dict)
    /\ pc' = "finish"
    /\ UNCHANGED <<lines, species_dict, todo, cur, pw, i, permuted_ssdi_vals,
                   newf, newm, calc_dict>>

\* logging.info("Finished! Total elapsed time: ...")
Finished ==
    /\ pc = "finish"
    /\ log' = Append(log, Ev("INFO", "Finished", 0, ""))
    /\ pc' = "done"
    /\ UNCHANGED <<lines, species_dict, todo, cur, pw, i, permuted_ssdi_vals,
                   newf, newm, calc_dict, outfile>>

Next ==
    \/ CheckInputsRaises
    \/ MainStart
    \/ OpenRaises
    \/ SkipHeaderRaises
    \/ SkipHeader
    \/ ReadLine
    \/ EndOfFile
    \/ QuickCounts
    \/ CalcBothSingle
    \/ CalcFemalesMultiple
    \/ CalcMalesMultiple
    \/ CalcBothMultiple
    \/ CalcIncomplete
    \/ Draw
    \/ FinishPerm
    \/ CalcReturn
    \/ WriteOutput
    \/ Finished

Spec == Init /\ [][Next]_vars

\* main without the loop of run_permutations: a behaviour ends where a
\* species enters it.
NextBatch ==
    \/ CheckInputsRaises
    \/ MainStart
    \/ OpenRaises
    \/ SkipHeaderRaises
    \/ SkipHeader
    \/ ReadLine
    \/ EndOfFile
    \/ QuickCounts
    \/ CalcBothSingle
    \/ CalcFemalesMultiple
    \/ CalcMalesMultiple
    \/ CalcBothMultiple
    \/ CalcIncomplete
    \/ CalcReturn
    \/ WriteOutput
    \/ Finished

SpecBatch == Init /\ [][NextBatch]_vars

---------------------------------------------------------------------------
(* input_to_dict as a whole, and the specifications of the parts.          *)

\* The loop of input_to_dict over the lines ls, the first numbered at.
RECURSIVE ReadAll(_, _, _)
ReadAll(d, ls, at) ==
    IF ls = <<>> THEN [raised |-> FALSE, dict |-> d, events |-> <<>>]
    ELSE LET r == ReadStep(d, Head(ls), at)
         IN  IF r.raised THEN r
             ELSE LET rest == ReadAll(r.dict, Tail(ls), at + 1)
                  IN  [raised |-> rest.raised, dict |-> rest.dict,
                       events |-> r.events \o rest.events]

\* The state in which input_to_dict, called by main, enters its loop.
InitRead ==
    /\ pc = "read"
    /\ lines = <<>>
    /\ species_dict = EmptyDict
    /\ log = MainEvents \o <<ReadingEvent>>
    /\ todo = <<>>
    /\ cur = NoLocals
    /\ pw = NoCall
    /\ i = 0
    /\ permuted_ssdi_vals = EmptyVals
    /\ newf = <<>>
    /\ newm = <<>>
    /\ calc_dict = EmptyDict
    /\ outfile = <<>>

\* input_to_dict alone.
NextRead == ReadLine \/ EndOfFile

SpecRead == InitRead /\ [][NextRead]_vars

\* The log when run_ssdi_calculations is called, input_to_dict having logged
\* events in its loop.
EntryLog(events) ==
    MainEvents \o <<ReadingEvent>> \o events \o <<FoundEvent>> \o QuickCountsEvents

\* The state in which run_ssdi_calculations, called by main, enters its loop
\* on the dictionary that input_to_dict returns for file.
CalcEntry(file) ==
    LET r == ReadAll(EmptyDict, file, 1)
    IN  /\ ~r.raised
        /\ pc = "calc"
        /\ lines = file
        /\ species_dict = r.dict
        /\ log = EntryLog(r.events)
        /\ todo = SortedKeys(r.dict)
        /\ cur = NoLocals
        /\ pw = NoCall
        /\ i = 0
        /\ permuted_ssdi_vals = EmptyVals
        /\ newf = <<>>
        /\ newm = <<>>
        /\ calc_dict = EmptyDict
        /\ outfile = <<>>

Rec(species, sex, size) ==
    [n |-> 3, species |-> species, sex |-> sex, size |-> NumTok(size)]

\* run_ssdi_calculations on the cohorts of every file of at most MaxLines
\* well-formed records, the records of a cohort adjacent (the order of the
\* records of different cohorts does not change the dictionary).
CohortKey(line) ==
    (IF line.species = "A" THEN 0 ELSE 2) + (IF Upper(line.sex) = "F" THEN 0 ELSE 1)

CalcFiles ==
    { file \in UNION { [1..n -> { l \in Lines : WellFormed(l) }] : n \in 0..MaxLines } :
        \A j \in 1..(Len(file) - 1) : CohortKey(file[j]) <= CohortKey(file[j + 1]) }

InitCalc == \E file \in CalcFiles : CalcEntry(file)

\* run_ssdi_calculations without the loop of run_permutations: a behaviour
\* ends where a species enters it.
NextCalc ==
    \/ CalcBothSingle
    \/ CalcFemalesMultiple
    \/ CalcMalesMultiple
    \/ CalcBothMultiple
    \/ CalcIncomplete
    \/ CalcReturn

SpecCalc == InitCalc /\ [][NextCalc]_vars

\* run_ssdi_calculations with all the iterations of the loop, on the pools
\* of equal sizes (every iteration then appends the same value, so the loop
\* is one path).
EqualFiles ==
    UNION { { <<Rec("A", "f", s), Rec("A", "f", s), Rec("A", "M", s)>>,
              <<Rec("A", "f", s), Rec("A", "M", s), Rec("A", "M", s)>>,
              <<Rec("A", "f", s), Rec("A", "f", s), Rec("A", "M", s), Rec("A", "M", s)>> } :
            s \in {t.val : t \in {u \in SizeTokens : u.num}} }

InitLoop == \E file \in EqualFiles : CalcEntry(file)

NextLoop ==
    \/ CalcFemalesMultiple
    \/ CalcMalesMultiple
    \/ CalcBothMultiple
    \/ Draw
    \/ FinishPerm
    \/ CalcReturn

SpecLoop == InitLoop /\ [][NextLoop]_vars

\* The end of the loop of run_permutations and what follows it, from states
\* of the loop with MaxDraws iterations left, on the files of the first
\* species alone, which takes the tests (the name of a species is no input
\* of run_permutations).
TailFiles ==
    { file \in CalcFiles :
        /\ Len(file) > 2
        /\ \A j \in 1..Len(file) : file[j].species = Head(SpeciesOrder)
        /\ \E j \in 1..Len(file) : Upper(file[j].sex) = "F"
        /\ \E j \in 1..Len(file) : Upper(file[j].sex) = "M" }

\* The branch of run_ssdi_calculations the cohorts v take.
TestArgsOf(v) ==
    IF Len(v.F) > 1 /\ Len(v.M) = 1 THEN FemalesMultipleArgs(v)
    ELSE IF Len(v.F) = 1 /\ Len(v.M) > 1 THEN MalesMultipleArgs(v)
    ELSE BothMultipleArgs(v)

\* The number of entries of a sorted list of NumDraws values that lie below
\* the position of its 2.5th percentile (and above that of its 97.5th).
TailLength == (NumDraws * 25) \div 1000

\* How often the first of two values occurs in the lists enumerated: so
\* that a percentile falls next to, or on, the place where the values
\* change, a third and a half of the loop.
HeadCounts == {TailLength - 1, TailLength, NumDraws \div 3, NumDraws \div 2}

\* Lists of total values the loop can have built on the cohorts v: one of the
\* values an iteration can append throughout, or two of them.
TailBags(v, total) ==
    LET V == { d.pw.avg : d \in Draws(v.F, v.M) }
    IN  { (x :> total) : x \in V }
        \cup UNION { { (p[1] :> c) @@ (p[2] :> (total - c)) : c \in HeadCounts } :
                     p \in { q \in V \X V : q[1] # q[2] } }

InitTail ==
    \E file \in TailFiles :
        LET r == ReadAll(EmptyDict, file, 1)
            k == Head(SortedKeys(r.dict))
            v == r.dict[k]
        IN  \E a \in TestArgsOf(v), bag \in TailBags(v, NumDraws - MaxDraws),
               d \in Draws(v.F, v.M) :
            \E e \in TestsEntered(NoLocals, k, v, a) :
              /\ d.pw.avg \in DOMAIN bag
              /\ pc = "perm"
              /\ lines = file
              /\ species_dict = r.dict
              /\ log = EntryLog(r.events) \o TestsEvents(k)
              /\ todo = Tail(SortedKeys(r.dict))
              /\ cur = e.cur
              /\ pw = d.pw
              /\ i = NumDraws - MaxDraws
              /\ permuted_ssdi_vals = bag
              /\ newf = d.newf
              /\ newm = d.newm
              /\ calc_dict = EmptyDict
              /\ outfile = <<>>

NextTail == Draw \/ FinishPerm \/ CalcReturn

SpecTail == InitTail /\ [][NextTail]_vars

\* ssdi_single on one female and one male size, as run_ssdi_calculations
\* applies it to a species of one female and one male.  The sizes are the
\* small ones and pairs that differ by 0.1 %, by 0.067 %, by 0.05 % (where
\* the index lies halfway between 0.0 and 0.001), by 0.033 % and by 0.025 %.
MaxFine == 12

FineSizes ==
    (1..MaxFine) \cup {1000, 1001, 1500, 1501, 2000, 2001, 3000, 3001, 4000, 4001}

InitSsdi ==
    \E f \in FineSizes, m \in FineSizes :
        CalcEntry(<<Rec("A", "f", f), Rec("A", "M", m)>>)

NextSsdi == CalcBothSingle \/ CalcReturn

SpecSsdi == InitSsdi /\ [][NextSsdi]_vars

---------------------------------------------------------------------------
(* Properties.                                                             *)

Cohort(sp) == species_dict[sp]

\* The sizes of the well-formed records of ls for species sp and sex, in order.
RECURSIVE ExpectedCohort(_, _, _)
ExpectedCohort(ls, sp, sex) ==
    IF ls = <<>> THEN <<>>
    ELSE LET l == Head(ls)
         IN  (IF WellFormed(l) /\ l.species = sp /\ Upper(l.sex) = sex
              THEN <<l.size.val>> ELSE <<>>)
             \o ExpectedCohort(Tail(ls), sp, sex)

\* The log events that report a skipped record or an excluded species.
IsSkipDiagnostic(e) ==
    e.msg \in {"Bad line", "Skipping entry",
               "Species does not have at least 1 M and 1 F"}

\* C1: input_to_dict skips every malformed record (too few fields, unknown
\* sex token, unparseable size) without aborting, and every well-formed
\* record, also one after a malformed record, is in its cohort.
C1_MalformedRecordsSkipped ==
    /\ pc # "crashed"
    /\ \A sp \in Species :
         LET em == ExpectedCohort(lines, sp, "M")
             ef == ExpectedCohort(lines, sp, "F")
         IN  (em # <<>> \/ ef # <<>>) =>
                 /\ sp \in DOMAIN species_dict
                 /\ Cohort(sp).M = em
                 /\ Cohort(sp).F = ef

\* run_ssdi_calculations has returned.
Returned == pc \in {"write", "finish", "done"}

\* C2: when run_ssdi_calculations returns, a species has a record in the
\* result mapping exactly when its cohort has at least one female and at
\* least one male size, and the record's standard_ssdi is a number.
C2_ResultIffBothSexes ==
    Returned =>
        \A sp \in DOMAIN species_dict :
            /\ (sp \in DOMAIN calc_dict) <=>
                   (Len(Cohort(sp).F) >= 1 /\ Len(Cohort(sp).M) >= 1)
            /\ sp \in DOMAIN calc_dict => calc_dict[sp].ssdi.tag = "num"

\* The species of one female f and one male m that the model has analysed.
SingleAnalysed ==
    /\ cur.k \in DOMAIN species_dict
    /\ Len(Cohort(cur.k).F) = 1
    /\ Len(Cohort(cur.k).M) = 1
    /\ cur.ssdi.tag = "num"

\* C3 as stated: ssdi_single(f, m) is negative when f < m, positive when
\* f > m and 0.0 when f = m, for all positive sizes.
C3_StrictSign ==
    SingleAnalysed =>
        LET f == Cohort(cur.k).F[1]
            m == Cohort(cur.k).M[1]
        IN  /\ f < m => cur.ssdi.val < 0
            /\ f > m => cur.ssdi.val > 0
            /\ f = m => cur.ssdi.val = 0

\* C3 amended: ssdi_single(f, m) is never positive when f < m, never
\* negative when f > m and 0.0 when f = m; it is negative (positive) when
\* the male (female) size exceeds the other by more than 0.05 % of the
\* smaller size, and 0.0 when the sizes differ by less than that.  At 0.05 %
\* the index lies halfway between 0.0 and 0.001 and the error of the
\* floating-point quotient decides between the two.
C3_RoundedSign ==
    SingleAnalysed =>
        LET f == Cohort(cur.k).F[1]
            m == Cohort(cur.k).M[1]
        IN  /\ f < m => cur.ssdi.val <= 0
            /\ f > m => cur.ssdi.val >= 0
            /\ f = m => cur.ssdi.val = 0
            /\ (f < m /\ 2000 * (m - f) > f) => cur.ssdi.val < 0
            /\ (f > m /\ 2000 * (f - m) > m) => cur.ssdi.val > 0
            /\ (f < m /\ 2000 * (m - f) < f) => cur.ssdi.val = 0
            /\ (f > m /\ 2000 * (f - m) < m) => cur.ssdi.val = 0
            /\ (f < m /\ 2000 * (m - f) = f) => cur.ssdi.val \in {-1, 0}
            /\ (f > m /\ 2000 * (f - m) = m) => cur.ssdi.val \in {0, 1}

\* Males larger by more than 0.05 % and less than 0.1 %, with a negative
\* index, reached.
C3_Witness ==
    /\ SingleAnalysed
    /\ Cohort(cur.k).F[1] < Cohort(cur.k).M[1]
    /\ 2000 * (Cohort(cur.k).M[1] - Cohort(cur.k).F[1]) > Cohort(cur.k).F[1]
    /\ 1000 * (Cohort(cur.k).M[1] - Cohort(cur.k).F[1]) < Cohort(cur.k).F[1]
    /\ cur.ssdi.val < 0

\* C4: once run_ssdi_calculations has returned, every species of exactly one
\* female f and one male m has a result with avg_pairwise_ssdi, the t-test
\* p-value, both permutation bounds and the permutation p-value equal to
\* NA and standard_ssdi = ssdi_single(f, m) on the raw values; neither
\* ssdi_pairwise nor run_permutations runs for it.
C4_SingletonsSkipTests ==
    \A sp \in DOMAIN species_dict :
        (Len(Cohort(sp).F) = 1 /\ Len(Cohort(sp).M) = 1) =>
            /\ Returned =>
                  /\ sp \in DOMAIN calc_dict
                  /\ calc_dict[sp].avg_ssdi = NA
                  /\ calc_dict[sp].p_pair = NA
                  /\ calc_dict[sp].low = NA
                  /\ calc_dict[sp].high = NA
                  /\ calc_dict[sp].p_perm = NA
                  /\ calc_dict[sp].ssdi.tag = "num"
                  /\ calc_dict[sp].ssdi.val
                       \in ssdi_single(Cohort(sp).F[1], Cohort(sp).M[1])
            /\ ~(pc = "perm" /\ cur.k = sp)
            /\ \A a \in 1..Len(log) :
                 log[a].sp = sp =>
                     log[a].msg \notin {"Average pairwise SSDi",
                                        "One-sample t-test P-value"}

\* C5: a call of ssdi_pairwise on n females and m males holds exactly n*m
\* values, the value of every (female, male) pair once, at the place the
\* nested loops give it; it returns their mean rounded to 3 decimals, and
\* the p-value "NA" when the t-test is not requested.
C5_PairwiseAllPairs ==
    pw.females # <<>> =>
        LET n == Len(pw.females)
            m == Len(pw.males)
        IN  /\ Len(pw.vals) = n * m
            /\ \A a \in 1..n, b \in 1..m :
                 pw.vals[(a - 1) * m + b] \in ssdi_single(pw.females[a], pw.males[b])
            /\ 2 * Abs(n * m * pw.avg - SumSeq(pw.vals)) <= n * m
            /\ ~pw.ttest => pw.p = NA

\* A call without t-test on two females and two males of unequal sizes.
C5_Witness ==
    /\ i > NumDraws - MaxDraws
    /\ Len(pw.females) = 2
    /\ Len(pw.males) = 2
    /\ ~pw.ttest
    /\ pw.females[1] # pw.females[2]
    /\ Len(pw.vals) = 4

\* The permutation test of the current species has returned: the species is
\* one that takes the tests, and the program is not inside them.
PermReturned ==
    /\ pc # "perm"
    /\ cur.k \in DOMAIN species_dict
    /\ Len(Cohort(cur.k).F) >= 1
    /\ Len(Cohort(cur.k).M) >= 1
    /\ Len(Cohort(cur.k).F) + Len(Cohort(cur.k).M) > 2

AllEqual(sizes) == \A a \in 1..Len(sizes) : sizes[a] = sizes[1]

\* C6: run_permutations on a pool of equal sizes with the empirical value 0
\* builds a null distribution of zeros and returns a p-value near 1.0, not
\* the significant "<0.001".
C6_EqualPoolNotSignificant ==
    ( /\ PermReturned
      /\ i = NumDraws
      /\ AllEqual(Cohort(cur.k).F \o Cohort(cur.k).M)
      /\ cur.avg_ssdi = Num(0) )
    => /\ \A x \in DOMAIN permuted_ssdi_vals : x = 0
       /\ cur.p_perm # LT001

\* C7: when the program has finished, every record that was
\* not appended to a cohort and every species with a cohort but no result
\* has a diagnostic event in the log.
C7_NoSilentSkip ==
    pc = "done" =>
        /\ \A j \in 1..Len(lines) :
             (lines[j].n > 0 /\ ~WellFormed(lines[j])) =>
                 \E a \in 1..Len(log) :
                     IsSkipDiagnostic(log[a]) /\ log[a].line = j
        /\ \A sp \in (DOMAIN species_dict) \ (DOMAIN calc_dict) :
             \E a \in 1..Len(log) :
                 IsSkipDiagnostic(log[a]) /\ log[a].sp = sp

\* C8: ssdi_pairwise with the t-test on pairwise values of zero variance
\* returns the p-value NA, and a diagnostic event reports it.
C8_ZeroVarianceGivesNA ==
    (pw.ttest /\ ZeroVariance(pw.vals)) =>
        /\ pw.p = NA
        /\ \E a \in 1..Len(log) :
             /\ log[a].sp = cur.k
             /\ log[a].lvl \in {"WARNING", "ERROR"}

\* C9: the bounds run_permutations returns satisfy low <= high.
C9_LowAtMostHigh ==
    PermReturned =>
        /\ cur.low.tag = "num"
        /\ cur.high.tag = "num"
        /\ cur.low.val <= cur.high.val

\* A permutation test that returned an interval of positive width.
C9_Witness ==
    /\ PermReturned
    /\ cur.low.tag = "num"
    /\ cur.high.tag = "num"
    /\ cur.low.val < cur.high.val

\* The values that occur in the sequence s.
Values(s) == {s[a] : a \in 1..Len(s)}

\* The number of entries of the sequence s equal to x.
Times(s, x) == Cardinality({a \in 1..Len(s) : s[a] = x})

\* C10: after every draw of run_permutations, newf has the length of
\* females, newm the length of males, newf followed by newm holds every
\* pooled size as often as females + males does, and the cohorts are the
\* ones input_to_dict built.
C10_DrawIsPermutation ==
    (pc = "perm" /\ i > 0) =>
        LET females == Cohort(cur.k).F
            males == Cohort(cur.k).M
        IN  /\ Len(newf) = Len(females)
            /\ Len(newm) = Len(males)
            /\ \A x \in Values(newf \o newm) \cup Values(females \o males) :
                 Times(newf \o newm, x) = Times(females \o males, x)
            /\ species_dict = ReadAll(EmptyDict, lines, 1).dict

\* A draw that moved a size from one sex to the other.
C10_Witness ==
    /\ pc = "perm"
    /\ i > NumDraws - MaxDraws
    /\ newf # Cohort(cur.k).F
    /\ Len(newf) = 2
    /\ Len(newm) = 2

\* C11: a record input_to_dict skips as malformed (too few fields or an
\* unknown sex token) leaves the mapping unchanged, so the mapping is the one
\* the well-formed records alone build: a cohort exists only for a species
\* with a well-formed record, and holds the sizes of those records.
C11_SkippedRecordsLeaveNoTrace ==
    \A sp \in DOMAIN species_dict :
        /\ \E j \in 1..Len(lines) : WellFormed(lines[j]) /\ lines[j].species = sp
        /\ Cohort(sp).M = ExpectedCohort(lines, sp, "M")
        /\ Cohort(sp).F = ExpectedCohort(lines, sp, "F")

====
